---------------------------- MODULE Spec2Model ----------------------------
(***************************************************************************)
(* A model of ServerExt (src/src/client/server/utils.rs): the operations   *)
(* that turn a caller's intent into Command values and hand them, one by   *)
(* one, to the transport's send.                                           *)
(*                                                                         *)
(* Strings are sequences of characters; a character is a one-symbol TLA+   *)
(* string ("CR", "LF" and "SOH" stand for \r, \n and \u{001}).  An         *)
(* Option<String> is <<>> (None) or <<s>> (Some(s)).  The log records      *)
(* every command handed to send on the current connection, with the        *)
(* caller that handed it and the Result send gave back.  One step of a     *)
(* caller is at most one call of send, so that two callers interleave at   *)
(* the granularity of send.                                                *)
(***************************************************************************)
EXTENDS Naturals, Integers, Sequences, FiniteSets, TLC

VARIABLES config, log, pc, frame, result, serial

vars == <<config, log, pc, frame, result, serial>>

-----------------------------------------------------------------------------
(* Bounds *)

\* longest message body / free-text argument a caller passes (sequential runs)
MaxLen == 3
\* longest message body a caller passes in the two-caller runs
MaxConcLen == 2
\* longest capability list passed to send_cap_req
MaxCaps == 2

-----------------------------------------------------------------------------
(* Strings *)

CR == "CR"
LF == "LF"
SOH == "SOH"
SP == " "

CRLF == <<CR, LF>>

Chars == {"a", CR, LF, SOH}
ConcChars == {"a", CR, LF}

SeqsUpTo(S, n) == UNION {[1..k -> S] : k \in 0..n}

Bodies == SeqsUpTo(Chars, MaxLen)
ConcBodies == SeqsUpTo(ConcChars, MaxConcLen)

str_test == <<"t", "e", "s", "t">>
str_user == <<"u", "s", "e", "r">>
str_real == <<"r", "e", "a", "l">>
str_password == <<"p", "a", "s", "s", "w", "o", "r", "d">>
str_chan == <<"#", "t", "e", "s", "t">>
str_plus_i == <<"+", "i">>
str_plus_o == <<"+", "o">>

Targets == {str_chan, str_test}

None == <<>>
Some(s) == <<s>>
IsSome(o) == Len(o) = 1
Unwrap(o) == o[1]

-----------------------------------------------------------------------------
(* Results *)

TransportErrors == {"ConnectionReset", "BrokenPipe"}

Ok == [kind |-> "Ok", err |-> ""]
Err(e) == [kind |-> "Err", err |-> e]
Panicked == [kind |-> "Panic", err |-> ""]
Pending == [kind |-> "Pending", err |-> ""]

\* what one call of Server::send can give back
SendResults == {Ok} \cup {Err(e) : e \in TransportErrors}

ConfigMissing == "ConfigMissing"

-----------------------------------------------------------------------------
(* Commands: the variants of proto::Command that ServerExt builds.  Every  *)
(* field is kept as an Option; a field that is a plain String in the Rust  *)
(* variant is always Some.                                                 *)

Cmd(verb, sub, p) == [verb |-> verb, sub |-> sub, p |-> p]

CAP(a, sub, b, c) == Cmd("CAP", sub, <<a, b, c>>)
PASS(pw) == Cmd("PASS", "", <<Some(pw)>>)
NICK(n) == Cmd("NICK", "", <<Some(n)>>)
USER(u, m, r) == Cmd("USER", "", <<Some(u), Some(m), Some(r)>>)
PRIVMSG(t, m) == Cmd("PRIVMSG", "", <<Some(t), Some(m)>>)
NOTICE(t, m) == Cmd("NOTICE", "", <<Some(t), Some(m)>>)
TOPIC(c, t) == Cmd("TOPIC", "", <<Some(c), t>>)
KICK(c, n, m) == Cmd("KICK", "", <<Some(c), Some(n), m>>)
SAMODE(t, m, p) == Cmd("SAMODE", "", <<Some(t), Some(m), p>>)
QUIT(m) == Cmd("QUIT", "", <<m>>)

-----------------------------------------------------------------------------
(* Capabilities *)

Capabilities == {"MultiPrefix", "UserhostInNames", "SASL"}
ConcCapabilities == {"MultiPrefix", "UserhostInNames"}

\* Capability::as_ref: the canonical name
as_ref(c) ==
    CASE c = "MultiPrefix" -> <<"m","u","l","t","i","-","p","r","e","f","i","x">>
      [] c = "UserhostInNames" ->
            <<"u","s","e","r","h","o","s","t","-","i","n","-","n","a","m","e","s">>
      [] c = "SASL" -> <<"s","a","s","l">>

CapLists == SeqsUpTo(Capabilities, MaxCaps)
ConcCapLists == SeqsUpTo(ConcCapabilities, MaxCaps)

-----------------------------------------------------------------------------
(* Config: what the accessors of client::data::Config give back *)

Configs ==
    [nickname : {None, Some(str_test)},
     password : {<<>>, str_password},
     username : {str_test, str_user},
     real_name : {str_real}]

\* the configurations of the two-caller runs
ConcConfigs == {c \in Configs : c.username = str_test}

config_password == config.password
config_username == config.username
config_real_name == config.real_name
\* Config::nickname() -> Result<&str>
config_nickname ==
    IF IsSome(config.nickname)
    THEN [kind |-> "Ok", val |-> Unwrap(config.nickname)]
    ELSE [kind |-> "Err", val |-> <<>>]

-----------------------------------------------------------------------------
(* Callers *)

Callers == {1, 2}

NoFrame ==
    [op |-> "", args |-> <<>>, exts |-> <<>>, verb |-> "", target |-> <<>>,
     lines |-> <<>>, idx |-> 0]

Frame(op, args) ==
    [op |-> op, args |-> args, exts |-> <<>>, verb |-> "", target |-> <<>>,
     lines |-> <<>>, idx |-> 0]

Quiescent(t) == pc[t] \in {"idle", "done"}

\* The caller obligation of a single writer per connection: when it is met
\* (serial), a caller starts an operation only while no other one is running.
Discipline(t) == serial => \A u \in Callers \ {t} : Quiescent(u)

\* Faulty variant of Unguarded: a lock held for the length of an operation.
Locked(t) == \A u \in Callers \ {t} : Quiescent(u)

\* What the layer itself asks of a call: nothing (every method takes &self,
\* there is no lock and no state).
Unguarded(t) == TRUE

CanCall(t) == pc[t] = "idle" /\ Unguarded(t) /\ Discipline(t)

Init ==
    /\ config \in Configs
    /\ log = <<>>
    /\ pc = [t \in Callers |-> "idle"]
    /\ frame = [t \in Callers |-> NoFrame]
    /\ result = [t \in Callers |-> Pending]
    /\ serial = FALSE

InitConc ==
    /\ config \in ConcConfigs
    /\ log = <<>>
    /\ pc = [t \in Callers |-> "idle"]
    /\ frame = [t \in Callers |-> NoFrame]
    /\ result = [t \in Callers |-> Pending]
    /\ serial \in BOOLEAN

-----------------------------------------------------------------------------
(* send and the ? operator *)

\* Server::send: the command is handed to the transport, which answers r
send(t, cmd, r) == log' = Append(log, [by |-> t, cmd |-> cmd, res |-> r])

\* Faulty variant of AfterTry: the error of send is swallowed.
AfterTry_swallow(r, next) == next

\* the place a caller goes to after `self.send(..)?` answered r
AfterTry(r, next) == IF r.kind = "Ok" THEN next ELSE "done"

\* self.send(cmd)?  followed by the code at `next` ("done": Ok(()) follows)
Try(t, cmd, next) ==
    \E r \in SendResults :
        /\ send(t, cmd, r)
        /\ pc' = [pc EXCEPT ![t] = AfterTry(r, next)]
        /\ result' = [result EXCEPT ![t] =
                         IF AfterTry(r, next) = "done" THEN r ELSE @]

\* self.send(cmd) as the method's value
Return(t, cmd) ==
    \E r \in SendResults :
        /\ send(t, cmd, r)
        /\ pc' = [pc EXCEPT ![t] = "done"]
        /\ result' = [result EXCEPT ![t] = r]

-----------------------------------------------------------------------------
(* send_cap_req *)

\* the stand-in for usize::MAX: larger than the length of any string here
UsizeMax == 2147483647

\* a - b on usize: with overflow checks (debug profile) an underflow panics,
\* without them (release profile) it wraps
usize_sub(a, b, overflow_checks) ==
    IF a >= b THEN [panic |-> FALSE, val |-> a - b]
    ELSE IF overflow_checks THEN [panic |-> TRUE, val |-> 0]
    ELSE [panic |-> FALSE, val |-> UsizeMax - (b - a) + 1]

\* Faulty variant of truncate: the trailing space is left in place.
truncate_nothing(s, new_len) == s

\* String::truncate: no effect when new_len is greater than the length
truncate(s, new_len) == IF new_len <= Len(s) THEN SubSeq(s, 1, new_len) ELSE s

\* the closure `append`: push_str(c); push(' ')
append(s, c) == (s \o c) \o <<SP>>

RECURSIVE fold(_, _, _)
\* Iterator::fold over the capabilities' names, from position i on
fold(extensions, i, acc) ==
    IF i > Len(extensions) THEN acc
    ELSE fold(extensions, i + 1, append(acc, as_ref(extensions[i])))

send_cap_req(t, extensions) ==
    /\ CanCall(t)
    /\ frame' = [frame EXCEPT ![t] =
                    [Frame("send_cap_req", <<>>) EXCEPT !.exts = extensions]]
    /\ LET exts == fold(extensions, 1, <<>>) IN
       \E overflow_checks \in BOOLEAN :
           LET len == usize_sub(Len(exts), 1, overflow_checks) IN
           IF len.panic
           THEN /\ pc' = [pc EXCEPT ![t] = "done"]
                /\ result' = [result EXCEPT ![t] = Panicked]
                /\ log' = log
           ELSE Return(t, CAP(None, "REQ", None, Some(truncate(exts, len.val))))
    /\ UNCHANGED <<config, serial>>

-----------------------------------------------------------------------------
(* identify *)

CapEnd == CAP(None, "END", None, None)

\* Faulty variant of PasswordSet: PASS is sent whatever the password.
PasswordSet_always == TRUE

\* `if self.config().password() != ""`
PasswordSet == config_password # <<>>

\* Faulty variant of identify: the nickname is read before anything is sent,
\* so that a missing nickname leaves the connection untouched.
identify_nickname_first(t) ==
    /\ CanCall(t)
    /\ frame' = [frame EXCEPT ![t] = Frame("identify", <<>>)]
    /\ IF config_nickname.kind = "Ok"
       THEN Try(t, CapEnd, IF PasswordSet THEN "id_pass" ELSE "id_nick")
       ELSE /\ pc' = [pc EXCEPT ![t] = "done"]
            /\ result' = [result EXCEPT ![t] = Err(ConfigMissing)]
            /\ log' = log
    /\ UNCHANGED <<config, serial>>

\* self.send(CAP(None, END, None, None))?
identify(t) ==
    /\ CanCall(t)
    /\ frame' = [frame EXCEPT ![t] = Frame("identify", <<>>)]
    /\ Try(t, CapEnd, IF PasswordSet THEN "id_pass" ELSE "id_nick")
    /\ UNCHANGED <<config, serial>>

\* self.send(PASS(self.config().password().to_owned()))?
identify_pass(t) ==
    /\ pc[t] = "id_pass"
    /\ Try(t, PASS(config_password), "id_nick")
    /\ UNCHANGED <<config, frame, serial>>

\* Faulty variant of identify_nick: a missing nickname is taken as "".
identify_nick_default(t) ==
    /\ pc[t] = "id_nick"
    /\ Try(t, NICK(config_nickname.val), "id_user")
    /\ UNCHANGED <<config, frame, serial>>

\* self.send(NICK(self.config().nickname()?.to_owned()))?
identify_nick(t) ==
    /\ pc[t] = "id_nick"
    /\ IF config_nickname.kind = "Ok"
       THEN Try(t, NICK(config_nickname.val), "id_user")
       ELSE /\ pc' = [pc EXCEPT ![t] = "done"]
            /\ result' = [result EXCEPT ![t] = Err(ConfigMissing)]
            /\ log' = log
    /\ UNCHANGED <<config, frame, serial>>

UserMode == <<"0">>

\* self.send(USER(username, "0", real_name))?; Ok(())
identify_user(t) ==
    /\ pc[t] = "id_user"
    /\ Try(t, USER(config_username, UserMode, config_real_name), "done")
    /\ UNCHANGED <<config, frame, serial>>

-----------------------------------------------------------------------------
(* send_privmsg, send_notice, send_ctcp *)

Matches(s, pat, i) ==
    /\ i + Len(pat) - 1 <= Len(s)
    /\ SubSeq(s, i, i + Len(pat) - 1) = pat

RECURSIVE SplitFrom(_, _, _, _)
\* the pieces of s from position i on, cur being the piece under way
SplitFrom(s, pat, i, cur) ==
    IF i > Len(s) THEN <<cur>>
    ELSE IF Matches(s, pat, i)
         THEN <<cur>> \o SplitFrom(s, pat, i + Len(pat), <<>>)
         ELSE SplitFrom(s, pat, i + 1, Append(cur, s[i]))

\* Faulty variant of split: a lone LF splits too (and leaves the CR).
split_at_lf(s, pat) == SplitFrom(s, <<LF>>, 1, <<>>)

\* str::split: the pieces between the matches of pat, found left to right
split(s, pat) == SplitFrom(s, pat, 1, <<>>)

\* one turn of `for line in message.split("\r\n") { self.send(..)? }`; after
\* the last line, Ok(())
ForLine(t, fr) ==
    /\ Try(t,
           IF fr.verb = "PRIVMSG"
           THEN PRIVMSG(fr.target, fr.lines[fr.idx])
           ELSE NOTICE(fr.target, fr.lines[fr.idx]),
           IF fr.idx = Len(fr.lines) THEN "done" ELSE "loop")
    /\ frame' = [frame EXCEPT ![t] = [fr EXCEPT !.idx = fr.idx + 1]]

Lines(op, args, verb, target, message) ==
    [Frame(op, args) EXCEPT !.verb = verb, !.target = target,
                            !.lines = split(message, CRLF), !.idx = 1]

send_privmsg(t, target, message) ==
    /\ CanCall(t)
    /\ ForLine(t, Lines("send_privmsg", <<target, message>>, "PRIVMSG",
                        target, message))
    /\ UNCHANGED <<config, serial>>

send_notice(t, target, message) ==
    /\ CanCall(t)
    /\ ForLine(t, Lines("send_notice", <<target, message>>, "NOTICE",
                        target, message))
    /\ UNCHANGED <<config, serial>>

\* format!("\u{001}{}\u{001}", msg)
ctcp_format(msg) == (<<SOH>> \o msg) \o <<SOH>>

\* self.send_privmsg(target, &format!(..)[..])
send_ctcp(t, target, msg) ==
    /\ CanCall(t)
    /\ ForLine(t, Lines("send_ctcp", <<target, msg>>, "PRIVMSG",
                        target, ctcp_format(msg)))
    /\ UNCHANGED <<config, serial>>

\* the later turns of the loop
for_line(t) ==
    /\ pc[t] = "loop"
    /\ ForLine(t, frame[t])
    /\ UNCHANGED <<config, serial>>

-----------------------------------------------------------------------------
(* send_topic, send_kick, send_samode, send_quit *)

\* Faulty variant of topic_field: an empty topic is sent as an empty field.
topic_field_present(topic) == Some(topic)

\* `if topic.is_empty() { None } else { Some(topic.to_owned()) }`
topic_field(topic) == IF topic = <<>> THEN None ELSE Some(topic)
kick_field(message) == IF message = <<>> THEN None ELSE Some(message)
samode_field(modeparams) == IF modeparams = <<>> THEN None ELSE Some(modeparams)

send_topic(t, channel, topic) ==
    /\ CanCall(t)
    /\ frame' = [frame EXCEPT ![t] = Frame("send_topic", <<channel, topic>>)]
    /\ Return(t, TOPIC(channel, topic_field(topic)))
    /\ UNCHANGED <<config, serial>>

send_kick(t, chanlist, nicklist, message) ==
    /\ CanCall(t)
    /\ frame' = [frame EXCEPT ![t] =
                    Frame("send_kick", <<chanlist, nicklist, message>>)]
    /\ Return(t, KICK(chanlist, nicklist, kick_field(message)))
    /\ UNCHANGED <<config, serial>>

send_samode(t, target, mode, modeparams) ==
    /\ CanCall(t)
    /\ frame' = [frame EXCEPT ![t] =
                    Frame("send_samode", <<target, mode, modeparams>>)]
    /\ Return(t, SAMODE(target, mode, samode_field(modeparams)))
    /\ UNCHANGED <<config, serial>>

PoweredByRust ==
    <<"P","o","w","e","r","e","d"," ","b","y"," ","R","u","s","t",".">>

\* Faulty variant of quit_message: an empty message is left out.
quit_message_absent(msg) == IF msg = <<>> THEN None ELSE Some(msg)

\* `Some(if msg.is_empty() { "Powered by Rust." } else { msg })`
quit_message(msg) == Some(IF msg = <<>> THEN PoweredByRust ELSE msg)

send_quit(t, msg) ==
    /\ CanCall(t)
    /\ frame' = [frame EXCEPT ![t] = Frame("send_quit", <<msg>>)]
    /\ Return(t, QUIT(quit_message(msg)))
    /\ UNCHANGED <<config, serial>>

-----------------------------------------------------------------------------
(* A fresh connection, as each use in the tests begins with:               *)
(* IrcServer::from_config(..).  Every caller makes one call per connection. *)

from_config(configs) ==
    /\ \A t \in Callers : Quiescent(t)
    /\ \E t \in Callers : pc[t] = "done"
    /\ config' \in configs
    /\ log' = <<>>
    /\ pc' = [t \in Callers |-> "idle"]
    /\ frame' = [t \in Callers |-> NoFrame]
    /\ result' = [t \in Callers |-> Pending]
    /\ UNCHANGED serial

-----------------------------------------------------------------------------
(* Specifications *)

\* one caller, every operation, the full range of arguments
Next ==
    \/ \E extensions \in CapLists : send_cap_req(1, extensions)
    \/ identify(1)
    \/ identify_pass(1)
    \/ identify_nick(1)
    \/ identify_user(1)
    \/ \E target \in Targets, message \in Bodies : send_privmsg(1, target, message)
    \/ \E target \in Targets, message \in Bodies : send_notice(1, target, message)
    \/ \E target \in Targets, msg \in Bodies : send_ctcp(1, target, msg)
    \/ for_line(1)
    \/ \E topic \in Bodies : send_topic(1, str_chan, topic)
    \/ \E message \in Bodies : send_kick(1, str_chan, str_test, message)
    \/ \E mode \in {str_plus_i, str_plus_o}, modeparams \in Bodies :
           send_samode(1, str_chan, mode, modeparams)
    \/ \E msg \in Bodies : send_quit(1, msg)
    \/ from_config(Configs)

Spec == Init /\ [][Next]_vars

\* two callers on one connection: send_cap_req, identify, send_privmsg
NextConc ==
    \/ \E t \in Callers, extensions \in ConcCapLists : send_cap_req(t, extensions)
    \/ \E t \in Callers : identify(t)
    \/ \E t \in Callers : identify_pass(t)
    \/ \E t \in Callers : identify_nick(t)
    \/ \E t \in Callers : identify_user(t)
    \/ \E t \in Callers, message \in ConcBodies : send_privmsg(t, str_chan, message)
    \/ \E t \in Callers : for_line(t)
    \/ from_config(ConcConfigs)

SpecConc == InitConc /\ [][NextConc]_vars

-----------------------------------------------------------------------------
(* What the claims speak of *)

\* the commands caller t handed to send, in order, with send's answers
Trace(t) == SelectSeq(log, LAMBDA e : e.by = t)

Cmds(tr) == [i \in 1..Len(tr) |-> tr[i].cmd]

AllOk(tr) == \A i \in 1..Len(tr) : tr[i].res = Ok

\* caller t's call of op has returned
Returned(t, op) == pc[t] = "done" /\ frame[t].op = op

IsPrefix(a, b) == Len(a) <= Len(b) /\ a = SubSeq(b, 1, Len(a))

HasVerb(tr, verb) == \E i \in 1..Len(tr) : tr[i].cmd.verb = verb

-----------------------------------------------------------------------------
(* C1 *)

\* the sequence the claim gives for a configured nickname
IdentifySequence ==
    (<<CapEnd>>
        \o (IF config.password = <<>> THEN <<>> ELSE <<PASS(config.password)>>))
        \o <<NICK(Unwrap(config.nickname)),
             USER(config.username, <<"0">>, config.real_name)>>

\* C1: when every send succeeds and a nickname is configured, identify hands
\* to send exactly CAP END, PASS (if and only if the password is non-empty),
\* NICK, USER (username, "0", real name), and returns Ok.
C1_IdentifySequence ==
    \A t \in Callers :
        (Returned(t, "identify") /\ AllOk(Trace(t)) /\ IsSome(config.nickname))
            => /\ Cmds(Trace(t)) = IdentifySequence
               /\ Len(Trace(t)) = (IF config.password = <<>> THEN 3 ELSE 4)
               /\ result[t] = Ok

C1_Witness ==
    \E t \in Callers :
        /\ Returned(t, "identify") /\ AllOk(Trace(t))
        /\ IsSome(config.nickname) /\ config.password # <<>>
        /\ Len(Trace(t)) = 4

-----------------------------------------------------------------------------
(* C2 *)

NoNickNoUser(tr) == ~HasVerb(tr, "NICK") /\ ~HasVerb(tr, "USER")

\* C2 as stated: with no nickname configured, identify returns ConfigMissing
\* and hands neither NICK nor USER to send.
C2_AsStated ==
    \A t \in Callers :
        (Returned(t, "identify") /\ ~IsSome(config.nickname))
            => /\ result[t] = Err(ConfigMissing)
               /\ NoNickNoUser(Trace(t))

\* C2, amended: with no nickname configured, identify returns ConfigMissing
\* when every send made before the nickname is read (CAP END, and PASS for a
\* non-empty password) succeeds, and the transport error of the failed send
\* otherwise; in both cases neither NICK nor USER is handed to send.
C2_ConfigMissing ==
    \A t \in Callers :
        (frame[t].op = "identify" /\ ~IsSome(config.nickname))
            => /\ NoNickNoUser(Trace(t))
               /\ (pc[t] = "done" /\ AllOk(Trace(t)))
                      => result[t] = Err(ConfigMissing)
               /\ (pc[t] = "done" /\ ~AllOk(Trace(t)))
                      => result[t] = Trace(t)[Len(Trace(t))].res

C2_Witness ==
    \E t \in Callers :
        /\ Returned(t, "identify") /\ ~IsSome(config.nickname)
        /\ AllOk(Trace(t)) /\ Len(Trace(t)) = 2
        /\ result[t] = Err(ConfigMissing)

-----------------------------------------------------------------------------
(* C3 *)

MultiCommand == {"identify", "send_privmsg", "send_notice"}

\* what the call of frame fr hands to send when no send fails
Planned(fr) ==
    IF fr.op = "identify"
    THEN (<<CapEnd>>
            \o (IF config.password = <<>> THEN <<>>
                ELSE <<PASS(config.password)>>))
            \o (IF IsSome(config.nickname)
                THEN <<NICK(Unwrap(config.nickname)),
                       USER(config.username, <<"0">>, config.real_name)>>
                ELSE <<>>)
    ELSE [i \in 1..Len(split(fr.args[2], CRLF)) |->
             Cmd(IF fr.op = "send_notice" THEN "NOTICE" ELSE "PRIVMSG", "",
                 <<Some(fr.args[1]), Some(split(fr.args[2], CRLF)[i])>>)]

\* C3: in identify, send_privmsg and send_notice a failed send is the last
\* command of the operation handed to send (nothing follows it, it is not
\* handed again), the operation has returned with that send's error, and what
\* was handed to send before is the beginning, in order, of the sequence.
C3_FailFast ==
    \A t \in Callers :
        frame[t].op \in MultiCommand =>
            LET tr == Trace(t) IN
            /\ IsPrefix(Cmds(tr), Planned(frame[t]))
            /\ \A i \in 1..Len(tr) :
                   tr[i].res # Ok
                       => /\ i = Len(tr)
                          /\ pc[t] = "done"
                          /\ result[t] = tr[i].res
                          /\ result[t].err \in TransportErrors

C3_Witness ==
    \E t \in Callers :
        /\ Returned(t, "identify")
        /\ Len(Trace(t)) = 2
        /\ Len(Planned(frame[t])) = 4
        /\ Trace(t)[2].res = Err("BrokenPipe")
        /\ result[t] = Err("BrokenPipe")

-----------------------------------------------------------------------------
(* C4 *)

\* the places where CR LF occurs in s
Breaks(s) == {i \in 1..(Len(s) - 1) : s[i] = CR /\ s[i + 1] = LF}

\* the n-th of them, from the left
NthBreak(s, n) ==
    CHOOSE p \in Breaks(s) : Cardinality({q \in Breaks(s) : q < p}) = n - 1

\* the i-th segment of s delimited by CR LF
Segment(s, i) ==
    SubSeq(s,
           IF i = 1 THEN 1 ELSE NthBreak(s, i - 1) + 2,
           IF i = Cardinality(Breaks(s)) + 1 THEN Len(s)
           ELSE NthBreak(s, i) - 1)

\* C4: send_privmsg (send_notice) of a body with k occurrences of CR LF, when
\* all sends succeed, makes exactly k+1 send calls, all PRIVMSG (all NOTICE)
\* to the given target, the i-th carrying the i-th CR-LF-delimited segment.
C4_Multiline ==
    \A t \in Callers :
        ((Returned(t, "send_privmsg") \/ Returned(t, "send_notice"))
                /\ AllOk(Trace(t)))
            => LET tr == Trace(t)
                   target == frame[t].args[1]
                   message == frame[t].args[2]
                   verb == IF frame[t].op = "send_privmsg"
                           THEN "PRIVMSG" ELSE "NOTICE"
               IN /\ Len(tr) = Cardinality(Breaks(message)) + 1
                  /\ \A i \in 1..Len(tr) :
                         tr[i].cmd = Cmd(verb, "",
                                         <<Some(target),
                                           Some(Segment(message, i))>>)
                  /\ result[t] = Ok

\* a body with a lone CR, then CR LF, then an empty last segment
C4_Witness ==
    \E t \in Callers :
        /\ Returned(t, "send_notice") /\ AllOk(Trace(t))
        /\ frame[t].args[2] = <<CR, CR, LF>>
        /\ Len(Trace(t)) = 2
        /\ Trace(t)[1].cmd.p[2] = Some(<<CR>>)
        /\ Trace(t)[2].cmd.p[2] = Some(<<>>)

-----------------------------------------------------------------------------
(* C5 *)

RECURSIVE Join(_, _)
\* the strings of ss with sep between each two
Join(ss, sep) ==
    IF Len(ss) = 1 THEN ss[1]
    ELSE (ss[1] \o sep) \o Join(SubSeq(ss, 2, Len(ss)), sep)

Names(extensions) == [i \in 1..Len(extensions) |-> as_ref(extensions[i])]

\* C5: for a non-empty list, send_cap_req hands to send exactly one CAP REQ
\* whose payload is the canonical names in input order joined by one space,
\* with no leading and no trailing space.
C5_CapReqPayload ==
    \A t \in Callers :
        (Returned(t, "send_cap_req") /\ frame[t].exts # <<>>)
            => LET tr == Trace(t)
                   payload == Join(Names(frame[t].exts), <<SP>>)
               IN /\ Len(tr) = 1
                  /\ tr[1].cmd = CAP(None, "REQ", None, Some(payload))
                  /\ payload[1] # SP
                  /\ payload[Len(payload)] # SP
                  /\ Cardinality({i \in 1..Len(payload) : payload[i] = SP})
                         = Len(frame[t].exts) - 1
                  /\ result[t] = tr[1].res

C5_Witness ==
    \E t \in Callers :
        /\ Returned(t, "send_cap_req")
        /\ frame[t].exts = <<"MultiPrefix", "UserhostInNames">>
        /\ Len(Trace(t)) = 1
        /\ Trace(t)[1].cmd.sub = "REQ"
        /\ Len(Trace(t)[1].cmd.p[3][1]) = 30

-----------------------------------------------------------------------------
(* C6 *)

\* C6: send_cap_req of an empty list builds no CAP REQ (send is not invoked)
\* and the call ends without a crash.
C6_EmptyCapReq ==
    \A t \in Callers :
        (Returned(t, "send_cap_req") /\ frame[t].exts = <<>>)
            => /\ Trace(t) = <<>>
               /\ result[t] # Panicked

-----------------------------------------------------------------------------
(* C7 *)

\* the optional trailing field of cmd, at place n, is absent exactly when the
\* argument is empty, and is the argument otherwise
Elided(cmd, n, arg) ==
    /\ Len(cmd.p) = n
    /\ (cmd.p[n] = None) <=> (arg = <<>>)
    /\ arg # <<>> => cmd.p[n] = Some(arg)

\* C7: send_topic, send_kick and send_samode hand one command to send, whose
\* optional trailing field is absent if and only if the argument is the empty
\* string and equals the argument otherwise.
C7_OptionalField ==
    \A t \in Callers :
        LET tr == Trace(t)  a == frame[t].args IN
        /\ Returned(t, "send_topic")
               => /\ Len(tr) = 1 /\ tr[1].cmd.verb = "TOPIC"
                  /\ tr[1].cmd.p[1] = Some(a[1])
                  /\ Elided(tr[1].cmd, 2, a[2])
        /\ Returned(t, "send_kick")
               => /\ Len(tr) = 1 /\ tr[1].cmd.verb = "KICK"
                  /\ tr[1].cmd.p[1] = Some(a[1]) /\ tr[1].cmd.p[2] = Some(a[2])
                  /\ Elided(tr[1].cmd, 3, a[3])
        /\ Returned(t, "send_samode")
               => /\ Len(tr) = 1 /\ tr[1].cmd.verb = "SAMODE"
                  /\ tr[1].cmd.p[1] = Some(a[1]) /\ tr[1].cmd.p[2] = Some(a[2])
                  /\ Elided(tr[1].cmd, 3, a[3])

C7_Witness ==
    \E t \in Callers :
        /\ Returned(t, "send_topic")
        /\ frame[t].args[2] = <<>>
        /\ Len(Trace(t)) = 1
        /\ Trace(t)[1].cmd = TOPIC(str_chan, None)

-----------------------------------------------------------------------------
(* C8 *)

Count(s, c) == Cardinality({i \in 1..Len(s) : s[i] = c})

\* C8: whatever the payload, send_ctcp results in one message to the target,
\* the payload between exactly one pair of \x01: every PRIVMSG it hands to
\* send begins with \x01 and ends with \x01.
C8_CtcpOnePair ==
    \A t \in Callers :
        frame[t].op = "send_ctcp" =>
            LET tr == Trace(t)  a == frame[t].args IN
            /\ \A i \in 1..Len(tr) :
                   LET text == tr[i].cmd.p[2][1] IN
                   /\ tr[i].cmd.verb = "PRIVMSG"
                   /\ tr[i].cmd.p[1] = Some(a[1])
                   /\ Len(text) >= 2
                   /\ text[1] = SOH /\ text[Len(text)] = SOH
                   /\ Count(text, SOH) = 2
            /\ (pc[t] = "done" /\ AllOk(tr))
                   => /\ Len(tr) = 1
                      /\ tr[1].cmd.p[2] = Some((<<SOH>> \o a[2]) \o <<SOH>>)

-----------------------------------------------------------------------------
(* C9 *)

\* C9: send_quit hands to send exactly one QUIT whose message is present:
\* "Powered by Rust." for an empty argument, the argument otherwise.
C9_QuitMessage ==
    \A t \in Callers :
        Returned(t, "send_quit")
            => LET tr == Trace(t)  msg == frame[t].args[1] IN
               /\ Len(tr) = 1
               /\ tr[1].cmd.verb = "QUIT"
               /\ Len(tr[1].cmd.p) = 1
               /\ tr[1].cmd.p[1] # None
               /\ tr[1].cmd.p[1] = Some(IF msg = <<>> THEN PoweredByRust ELSE msg)

C9_Witness ==
    \E t \in Callers :
        /\ Returned(t, "send_quit")
        /\ frame[t].args[1] = <<>>
        /\ Len(Trace(t)) = 1
        /\ Trace(t)[1].cmd.p[1] = Some(PoweredByRust)

-----------------------------------------------------------------------------
(* C10 *)

\* the commands of each caller's operation are next to each other in the log
Contiguous ==
    \A i, j, k \in 1..Len(log) :
        (i < j /\ j < k /\ log[i].by = log[k].by) => log[j].by = log[i].by

\* a call is accepted whatever was handed to send before and whatever the
\* other caller is in the middle of (outside the callers' own discipline)
NoExclusion ==
    \A t \in Callers :
        (pc[t] = "idle" /\ Discipline(t))
            => /\ ENABLED send_cap_req(t, <<"MultiPrefix">>)
               /\ ENABLED identify(t)
               /\ ENABLED send_privmsg(t, str_chan, <<>>)

\* C10: the layer enforces no ordering and no mutual exclusion, and under a
\* single-writer discipline the commands of each multi-command operation are
\* contiguous in the send order.
C10_NoEnforcement == NoExclusion /\ (serial => Contiguous)

\* without the discipline: CAP REQ of one caller handed to send after the
\* other's CAP END and before its NICK
C10_Witness ==
    /\ ~serial
    /\ \E i, j, k \in 1..Len(log) :
           /\ i < j /\ j < k
           /\ log[i].by = log[k].by /\ log[j].by # log[i].by
           /\ log[i].cmd = CapEnd
           /\ log[j].cmd.verb = "CAP" /\ log[j].cmd.sub = "REQ"
           /\ log[k].cmd.verb = "NICK"

\* without the discipline: a command of the other caller between two
\* segments of one send_privmsg
C10_SplitPrivmsg ==
    /\ ~serial
    /\ \E i, j, k \in 1..Len(log) :
           /\ i < j /\ j < k
           /\ log[i].by = log[k].by /\ log[j].by # log[i].by
           /\ frame[log[i].by].op = "send_privmsg"
           /\ log[i].cmd.verb = "PRIVMSG" /\ log[k].cmd.verb = "PRIVMSG"

\* CAP REQ handed to send after CAP END even by callers that take turns
C10_ReqAfterEnd ==
    /\ serial
    /\ \E i, j \in 1..Len(log) :
           /\ i < j
           /\ log[i].cmd = CapEnd
           /\ log[j].cmd.verb = "CAP" /\ log[j].cmd.sub = "REQ"

-----------------------------------------------------------------------------
(* C11 *)

\* C11: identify is not all-or-nothing.  In every invocation the first
\* command handed to send is CAP END, handed before the nickname is read (no
\* NICK precedes it, and the invocation is past CAP END whenever it is at the
\* nickname); an invocation that ends in ConfigMissing has handed CAP END,
\* and PASS when the password is non-empty, to send, both accepted, and
\* nothing else.
C11_NotAllOrNothing ==
    \A t \in Callers :
        frame[t].op = "identify" =>
            LET tr == Trace(t) IN
            /\ Len(tr) >= 1
            /\ tr[1].cmd = CapEnd
            /\ pc[t] \in {"id_pass", "id_nick"}
                   => /\ tr[1].res = Ok
                      /\ ~HasVerb(tr, "NICK")
            /\ (pc[t] = "done" /\ result[t] = Err(ConfigMissing))
                   => /\ AllOk(tr)
                      /\ Cmds(tr) =
                             <<CAP(None, "END", None, None)>>
                                 \o (IF config.password = <<>> THEN <<>>
                                     ELSE <<PASS(config.password)>>)

\* identify returned ConfigMissing with CAP END and PASS handed to send
C11_Witness ==
    \E t \in Callers :
        /\ Returned(t, "identify")
        /\ result[t] = Err(ConfigMissing)
        /\ config.nickname = None
        /\ config.password = str_password
        /\ Len(Trace(t)) = 2
        /\ Trace(t)[1].cmd.sub = "END" /\ Trace(t)[1].res = Ok
        /\ Trace(t)[2].cmd.verb = "PASS" /\ Trace(t)[2].res = Ok

=============================================================================
